---- MODULE Spec2Model ----
(***************************************************************************)
(* Model of src/src/index.ts, the Docker Registry proxy Worker.            *)
(*                                                                         *)
(* Strings the code splits, joins or searches (URL paths, scope values)    *)
(* are sequences of one-character strings.  A URL is a record              *)
(* [scheme, host, pathname, search]: search is the ordered list of         *)
(* [key, value] pairs of URLSearchParams.  A header is a [name, value]     *)
(* record whose value is itself a record ([text], [url] or a Bearer        *)
(* challenge).                                                             *)
(***************************************************************************)
EXTENDS Integers, Sequences, FiniteSets, TLC

\* inbox             the requests the clients are about to send, each with
\*                   the number of Worker redirects followed to reach it
\* pc                where the handler of the current request stands: "idle",
\*                   an await ("await_challenge", "await_text",
\*                   "await_token", "await_data"), "responded" or "threw"
\* request           event.request, the request being handled
\* mode              the rule of handleRequest the request took
\* outbound          the requests fetch sent for the current request
\* upstreamResponse  the response the awaited fetch resolved with
\* response          the response handleRequest returned
\* served            the finished exchanges, oldest first
\* hops              the redirects followed to reach the current request
VARIABLES inbox, pc, request, mode, outbound, upstreamResponse, response, served, hops

vars == <<inbox, pc, request, mode, outbound, upstreamResponse, response, served, hops>>

-----------------------------------------------------------------------------
(* Bounds of the model                                                     *)

MaxPathLen == 6
MaxScopeLen == 4
MaxNameLen == 3
MaxHops == 2
MaxRedirects == 1

-----------------------------------------------------------------------------
(* String literals, one character per element                              *)

Slash == "/"
Colon == ":"
RootPath == <<"/">>
V2Path == <<"/", "v", "2", "/">>
TokenPath == <<"/", "a", "u", "t", "h", "/", "t", "o", "k", "e", "n">>
Library == <<"l", "i", "b", "r", "a", "r", "y">>
LibrarySlash == <<"l", "i", "b", "r", "a", "r", "y", "/">>
Repository == <<"r", "e", "p", "o", "s", "i", "t", "o", "r", "y">>
Ubuntu == <<"u", "b", "u", "n", "t", "u">>
Alpine == <<"a", "l", "p", "i", "n", "e">>
Pull == <<"p", "u", "l", "l">>
Push == <<"p", "u", "s", "h">>
ManifestsLatest == <<"/", "m", "a", "n", "i", "f", "e", "s", "t", "s", "/", "l", "a", "t", "e", "s", "t">>

RegistryService == <<"r", "e", "g", "i", "s", "t", "r", "y", ".", "d", "o", "c", "k", "e", "r", ".", "i", "o">>

DOCKER_REGISTRY == [scheme |-> "https", host |-> "registry-1.docker.io"]
AuthService == [scheme |-> "https", host |-> "auth.docker.io"]
DockerCom == [scheme |-> "https", host |-> "www.docker.com"]

-----------------------------------------------------------------------------
(* String and array primitives of the JavaScript runtime                   *)

\* String.prototype.includes for a one-character needle
Includes(s, c) == \E i \in 1..Len(s) : s[i] = c

\* String.prototype.split for a one-character separator: n separators give
\* n + 1 elements, the empty string gives one empty element
RECURSIVE Split(_, _)
Split(s, sep) ==
    IF ~Includes(s, sep)
    THEN <<s>>
    ELSE LET i == CHOOSE k \in 1..Len(s) :
                      s[k] = sep /\ \A j \in 1..(k - 1) : s[j] # sep
         IN  <<SubSeq(s, 1, i - 1)>> \o Split(SubSeq(s, i + 1, Len(s)), sep)

\* Array.prototype.join with a one-character separator
RECURSIVE Join(_, _)
Join(parts, sep) ==
    IF Len(parts) = 0 THEN <<>>
    ELSE IF Len(parts) = 1 THEN parts[1]
    ELSE parts[1] \o <<sep>> \o Join(Tail(parts), sep)

\* Array.prototype.splice(start, 0, item): start counts from 0 and is
\* clamped to the length of the array
SpliceReplace(parts, start, item) ==
    LET at == IF start > Len(parts) THEN Len(parts) ELSE start
    IN  SubSeq(parts, 1, at) \o <<item>> \o SubSeq(parts, at + 2, Len(parts))

Splice(parts, start, item) ==
    LET at == IF start > Len(parts) THEN Len(parts) ELSE start
    IN  SubSeq(parts, 1, at) \o <<item>> \o SubSeq(parts, at + 1, Len(parts))

-----------------------------------------------------------------------------
(* URL                                                                     *)

\* The URL parser's path state on a path that starts with "/": a "."
\* segment is dropped, a ".." segment removes the segment before it, and a
\* dot segment at the end leaves an empty last segment.
RECURSIVE ParseSegments(_, _)
ParseSegments(segs, acc) ==
    IF Len(segs) = 0 THEN acc
    ELSE LET seg == Head(segs)
             last == Len(segs) = 1
             next ==
                 IF seg = <<".", ".">>
                 THEN LET cut == IF Len(acc) = 0 THEN acc ELSE SubSeq(acc, 1, Len(acc) - 1)
                      IN  IF last THEN Append(cut, <<>>) ELSE cut
                 ELSE IF seg = <<".">>
                 THEN IF last THEN Append(acc, <<>>) ELSE acc
                 ELSE Append(acc, seg)
         IN  ParseSegments(Tail(segs), next)

\* pathname of the URL parsed from a path string (the serializer writes "/"
\* before every segment)
ParsePath(p) ==
    LET raw == IF Len(p) > 0 /\ p[1] = Slash THEN Tail(p) ELSE p
    IN  <<Slash>> \o Join(ParseSegments(Split(raw, Slash), <<>>), Slash)

\* new URL(`${base}${path}`) for a base without path
NewURL(base, path) ==
    [scheme |-> base.scheme, host |-> base.host, pathname |-> ParsePath(path), search |-> <<>>]

\* URLSearchParams.get: the first value of the key, or null.  null is <<>>
\* and a value v is <<v>>.
SearchParamsGet(search, key) ==
    IF \E i \in 1..Len(search) : search[i].key = key
    THEN LET i == CHOOSE k \in 1..Len(search) :
                      search[k].key = key /\ \A j \in 1..(k - 1) : search[j].key # key
         IN  <<search[i].value>>
    ELSE <<>>

\* URLSearchParams.set: the first pair of the key takes the value and the
\* other pairs of the key go; without such a pair one is appended
SearchParamsSet(search, key, value) ==
    IF \E i \in 1..Len(search) : search[i].key = key
    THEN LET first == CHOOSE k \in 1..Len(search) :
                          search[k].key = key /\ \A j \in 1..(k - 1) : search[j].key # key
             keep == SelectSeq(search, LAMBDA p : p.key # key)
             before == SelectSeq(SubSeq(search, 1, first - 1), LAMBDA p : p.key # key)
         IN  before \o <<[key |-> key, value |-> value]>>
                    \o SubSeq(keep, Len(before) + 1, Len(keep))
    ELSE Append(search, [key |-> key, value |-> value])

-----------------------------------------------------------------------------
(* Requests and responses                                                  *)

NoRequest == [method |-> "", url |-> [scheme |-> "", host |-> "", pathname |-> <<>>, search |-> <<>>],
              headers |-> {}]
NoResponse == [status |-> 0, statusText |-> "", headers |-> {}, body |-> ""]

RedirectStatuses == {301, 302, 303, 307, 308}

Header(name, value) == [name |-> name, value |-> value]
HasHeader(headers, name) == \E h \in headers : h.name = name
GetHeader(headers, name) == (CHOOSE h \in headers : h.name = name).value

\* Response.redirect(url, status): no body, a Location header with the
\* serialized URL
ResponseRedirect(url, status) ==
    [status |-> status, statusText |-> "",
     headers |-> {Header("Location", [url |-> url])}, body |-> ""]

\* new Response(body, init) for a string body: the constructor adds
\* Content-Type: text/plain;charset=UTF-8 when init.headers has no
\* Content-Type (Fetch Standard, "initialize a response", from the type the
\* body is extracted with)
NewResponse(body, init) ==
    [status |-> init.status, statusText |-> init.statusText,
     headers |-> IF HasHeader(init.headers, "Content-Type")
                 THEN init.headers
                 ELSE init.headers \cup {Header("Content-Type", [text |-> "text/plain;charset=UTF-8"])},
     body |-> body]

\* fetch(url) without init: GET, no headers, redirects followed
FetchDefault(url) == [url |-> url, method |-> "GET", headers |-> {}, redirect |-> "follow"]

-----------------------------------------------------------------------------
(* The Worker, src/src/index.ts                                            *)

processScopeNoCheck(url) ==
    LET got == SearchParamsGet(url.search, "scope")
    IN  IF got = <<>> THEN [threw |-> TRUE, value |-> <<>>]
        ELSE LET parts == Split(got[1], Colon)
             IN  IF Len(parts) = 3
                 THEN [threw |-> FALSE,
                       value |-> Join([parts EXCEPT ![2] = LibrarySlash \o parts[2]], Colon)]
                 ELSE [threw |-> FALSE, value |-> got[1]]

processScopeDefaulted(url) ==
    LET got == SearchParamsGet(url.search, "scope")
        scope == IF got = <<>> THEN <<>> ELSE got[1]
        parts == Split(scope, Colon)
    IN  IF Len(parts) = 3 /\ ~Includes(parts[2], Slash)
        THEN [threw |-> FALSE,
              value |-> Join([parts EXCEPT ![2] = LibrarySlash \o parts[2]], Colon)]
        ELSE [threw |-> FALSE, value |-> scope]

\* processScope: scope is null without the parameter, and null.split throws
processScope(url) ==
    LET got == SearchParamsGet(url.search, "scope")
    IN  IF got = <<>> THEN [threw |-> TRUE, value |-> <<>>]
        ELSE LET parts == Split(got[1], Colon)
             IN  IF Len(parts) = 3 /\ ~Includes(parts[2], Slash)
                 THEN [threw |-> FALSE,
                       value |-> Join([parts EXCEPT ![2] = LibrarySlash \o parts[2]], Colon)]
                 ELSE [threw |-> FALSE, value |-> got[1]]

tokenUrlNoService(scope) ==
    [scheme |-> AuthService.scheme, host |-> AuthService.host,
     pathname |-> <<"/", "t", "o", "k", "e", "n">>,
     search |-> SearchParamsSet(<<>>, "scope", scope)]

\* getToken: the URL of the authorization service with its two parameters
tokenUrl(scope) ==
    [scheme |-> AuthService.scheme, host |-> AuthService.host,
     pathname |-> <<"/", "t", "o", "k", "e", "n">>,
     search |-> SearchParamsSet(
                    SearchParamsSet(<<>>, "service", RegistryService),
                    "scope", scope)]

proxyRequestFollow(upstream, req) ==
    [url |-> NewURL(upstream, req.url.pathname),
     method |-> req.method, headers |-> req.headers, redirect |-> "follow"]

\* getData: the request sent upstream
proxyRequest(upstream, req) ==
    [url |-> NewURL(upstream, req.url.pathname),
     method |-> req.method, headers |-> req.headers, redirect |-> "manual"]

challengeResponseCopy(upstreamResp, responseBody, host) ==
    NewResponse(responseBody,
        [status |-> upstreamResp.status, statusText |-> upstreamResp.statusText,
         headers |-> upstreamResp.headers])

\* challenge, after the two awaits: the response with the Bearer challenge
challengeResponse(upstreamResp, responseBody, host) ==
    LET headers ==
            {Header("WWW-Authenticate",
                    [scheme |-> "Bearer",
                     realm |-> [scheme |-> "https", host |-> host,
                                pathname |-> TokenPath, search |-> <<>>],
                     service |-> "docker-proxy-worker"])}
    IN  NewResponse(responseBody,
            [status |-> upstreamResp.status, statusText |-> upstreamResp.statusText,
             headers |-> headers])

needsNamespaceFour(parts) == Len(parts) = 4

\* handleRequest, rule 4: the path lacks the namespace
needsNamespace(parts) == Len(parts) = 5

namespaceUrlUpstream(parts, host) ==
    LET newUrl == NewURL(DOCKER_REGISTRY, <<>>)
    IN  [newUrl EXCEPT !.pathname = ParsePath(Join(Splice(parts, 2, Library), Slash))]

\* handleRequest, rule 4: the URL the client is redirected to
namespaceUrl(parts, host) ==
    LET newUrl == NewURL([scheme |-> "https", host |-> host], <<>>)
    IN  [newUrl EXCEPT !.pathname = ParsePath(Join(Splice(parts, 2, Library), Slash))]

\* handleRequest up to its first await or its return: where it stands, the
\* rule it took, the requests it issued and the response it returned
handleRequest(req) ==
    LET url == req.url
        host == url.host
        path == url.pathname
        parts == Split(path, Slash)
    IN  IF path = RootPath
        THEN [pc |-> "responded", mode |-> "landing", outbound |-> <<>>,
              response |-> ResponseRedirect(NewURL(DockerCom, <<>>), 301)]
        ELSE IF path = V2Path
        THEN [pc |-> "await_challenge", mode |-> "challenge",
              outbound |-> <<FetchDefault(NewURL(DOCKER_REGISTRY, V2Path))>>,
              response |-> NoResponse]
        ELSE IF path = TokenPath
        THEN LET scope == processScope(url)
             IN  IF scope.threw
                 THEN [pc |-> "threw", mode |-> "token", outbound |-> <<>>,
                       response |-> NoResponse]
                 ELSE [pc |-> "await_token", mode |-> "token",
                       outbound |-> <<FetchDefault(tokenUrl(scope.value))>>,
                       response |-> NoResponse]
        ELSE IF needsNamespace(parts)
        THEN [pc |-> "responded", mode |-> "namespace", outbound |-> <<>>,
              response |-> ResponseRedirect(namespaceUrl(parts, host), 301)]
        ELSE [pc |-> "await_data", mode |-> "proxy",
              outbound |-> <<proxyRequest(DOCKER_REGISTRY, req)>>,
              response |-> NoResponse]

-----------------------------------------------------------------------------
(* The environment: what clients send and what the upstreams answer        *)

Strings(alphabet, n) == UNION {[1..k -> alphabet] : k \in 0..n}

\* url.pathname is what the URL parser produced: it starts with "/" and
\* parsing it again changes nothing
Pathnames ==
    {p \in {<<Slash>> \o s : s \in Strings({"/", "a", "."}, MaxPathLen - 1)} : ParsePath(p) = p}
        \cup {V2Path, TokenPath,
              V2Path \o Alpine \o ManifestsLatest,
              V2Path \o LibrarySlash \o Alpine \o ManifestsLatest}

Scopes ==
    Strings({":", "/", "a"}, MaxScopeLen)
        \cup {Join(<<Repository, Ubuntu, Pull>>, Colon),
              Join(<<Repository, LibrarySlash \o Ubuntu, Pull>>, Colon),
              Join(<<Repository, <<"u", "/", "r">>, Push>>, Colon)}

Param(key, value) == [key |-> key, value |-> value]
OtherParams == {Param("account", <<"a">>), Param("service", <<"a">>)}

\* Queries for the token path: a scope or none, alone or beside another
\* parameter, and a repeated scope
TokenQueries ==
    {<<>>} \cup {<<o>> : o \in OtherParams}
        \cup {<<Param("scope", s)>> : s \in Scopes}
        \cup {<<o, Param("scope", s)>> : o \in OtherParams, s \in Scopes}
        \cup {<<Param("scope", s), o>> : o \in OtherParams, s \in Scopes}
        \cup {<<Param("scope", s), Param("scope", <<"a">>)>> : s \in {<<"a", ":", "a", ":", "a">>}}

PlainQueries == {<<>>, <<Param("scope", <<"a", ":", "a", ":", "a">>)>>, <<Param("account", <<"a">>)>>}

Hosts == {"mirror.example", "hub.example:8443"}
Methods == {"GET", "HEAD"}
ClientHeaders == {{}, {Header("Authorization", [text |-> "Bearer t"])}}

Request(method, host, pathname, search, headers) ==
    [method |-> method,
     url |-> [scheme |-> "https", host |-> host, pathname |-> pathname, search |-> search],
     headers |-> headers]

Requests ==
    {Request(m, h, p, q, hd) :
        m \in Methods, h \in Hosts, p \in Pathnames, q \in PlainQueries, hd \in ClientHeaders}
    \cup {Request(m, h, TokenPath, q, hd) :
        m \in Methods, h \in Hosts, q \in TokenQueries, hd \in ClientHeaders}

\* A client that pulls the repository `name`: its manifest request and its
\* token request
RepoNames == Strings({"a", "/"}, MaxNameLen) \ {<<>>}
RepoPath(name) == V2Path \o name \o ManifestsLatest
RepoScope(name, action) == Join(<<Repository, name, action>>, Colon)
\* What a client sends: the request and the number of redirects of the
\* Worker it followed to get there
Sent(req, hop) == [request |-> req, hop |-> hop]

PullSessions ==
    {<<Sent(Request("GET", h, RepoPath(n), <<>>, {}), 0),
       Sent(Request("GET", h, TokenPath, <<Param("scope", RepoScope(n, a))>>, {}), 0)>> :
        h \in Hosts, n \in RepoNames, a \in {Pull, Push}}

Sessions == {<<Sent(r, 0)>> : r \in Requests} \cup PullSessions

UpstreamResponse(status, statusText, headers, body) ==
    [status |-> status, statusText |-> statusText, headers |-> headers, body |-> body]

JsonType == Header("Content-Type", [text |-> "application/json"])

\* What the registry and the authorization service answer.  Only the
\* registry's data endpoints redirect (to blob storage).
Answers(req) ==
    IF req.url.host = DOCKER_REGISTRY.host /\ req.url.pathname = V2Path
    THEN {UpstreamResponse(401, "Unauthorized",
              {JsonType, Header("WWW-Authenticate", [text |-> "Bearer realm=auth.docker.io"])},
              "unauthorized"),
          UpstreamResponse(200, "OK", {JsonType}, "{}")}
    ELSE IF req.url.host = DOCKER_REGISTRY.host
    THEN {UpstreamResponse(200, "OK", {JsonType}, "manifest"),
          UpstreamResponse(401, "Unauthorized", {JsonType}, "unauthorized"),
          UpstreamResponse(307, "Temporary Redirect",
              {Header("Location",
                      [url |-> [scheme |-> "https", host |-> "blobs.example",
                                pathname |-> <<"/", "b">>, search |-> <<>>]])},
              "")}
    ELSE IF req.url.host = AuthService.host
    THEN {UpstreamResponse(200, "OK", {JsonType}, "token"),
          UpstreamResponse(400, "Bad Request", {JsonType}, "error")}
    ELSE {UpstreamResponse(200, "OK", {}, "blob")}

\* fetch follows a redirect itself unless the request says manual
Follows(req, r) ==
    /\ req.redirect = "follow"
    /\ r.status \in RedirectStatuses
    /\ HasHeader(r.headers, "Location")
    /\ Len(outbound) <= MaxRedirects

Last(s) == s[Len(s)]

Exchange(req, m, out, resp, hop) ==
    [request |-> req, mode |-> m, outbound |-> out, response |-> resp, hop |-> hop]

-----------------------------------------------------------------------------
(* Behaviour                                                               *)

Init ==
    /\ inbox \in Sessions
    /\ pc = "idle"
    /\ request = NoRequest
    /\ mode = "none"
    /\ outbound = <<>>
    /\ upstreamResponse = NoResponse
    /\ response = NoResponse
    /\ served = <<>>
    /\ hops = 0

\* The fetch listener: handleRequest runs to its first await or its return
FetchEvent ==
    /\ pc \in {"idle", "responded", "threw"}
    /\ inbox # <<>>
    /\ LET req == Head(inbox).request
           hop == Head(inbox).hop
           out == handleRequest(req)
       IN  /\ request' = req
           /\ hops' = hop
           /\ inbox' = Tail(inbox)
           /\ pc' = out.pc
           /\ mode' = out.mode
           /\ outbound' = out.outbound
           /\ response' = out.response
           /\ served' = IF out.pc \in {"responded", "threw"}
                        THEN Append(served, Exchange(req, out.mode, out.outbound, out.response, hop))
                        ELSE served
    /\ upstreamResponse' = NoResponse

\* fetch re-issues the request at the Location of a redirect it follows
FollowRedirect(r) ==
    /\ outbound' = Append(outbound, [Last(outbound) EXCEPT !.url = GetHeader(r.headers, "Location").url])
    /\ UNCHANGED <<inbox, pc, request, mode, upstreamResponse, response, served, hops>>

\* The handler returns resp
Respond(resp) ==
    /\ response' = resp
    /\ pc' = "responded"
    /\ served' = Append(served, Exchange(request, mode, outbound, resp, hops))
    /\ UNCHANGED <<inbox, request, mode, outbound, hops>>

\* challenge: await fetch(url) resolves
ChallengeFetched ==
    /\ pc = "await_challenge"
    /\ \E r \in Answers(Last(outbound)) :
          IF Follows(Last(outbound), r)
          THEN FollowRedirect(r)
          ELSE /\ upstreamResponse' = r
               /\ pc' = "await_text"
               /\ UNCHANGED <<inbox, request, mode, outbound, response, served, hops>>

\* challenge: await upstreamResponse.text() resolves and the response is built
ChallengeText ==
    /\ pc = "await_text"
    /\ Respond(challengeResponse(upstreamResponse, upstreamResponse.body, request.url.host))
    /\ UNCHANGED upstreamResponse

\* getToken: the promise of fetch(tokenUrl) resolves
TokenFetched ==
    /\ pc = "await_token"
    /\ \E r \in Answers(Last(outbound)) :
          IF Follows(Last(outbound), r)
          THEN FollowRedirect(r)
          ELSE Respond(r) /\ upstreamResponse' = r

\* getData: the promise of fetch(proxyRequest) resolves
DataFetched ==
    /\ pc = "await_data"
    /\ \E r \in Answers(Last(outbound)) :
          IF Follows(Last(outbound), r)
          THEN FollowRedirect(r)
          ELSE Respond(r) /\ upstreamResponse' = r

\* A fetch fails: the promise rejects and passThroughOnException leaves the
\* request to the host
FetchRejected ==
    /\ pc \in {"await_challenge", "await_token", "await_data"}
    /\ pc' = "threw"
    /\ served' = Append(served, Exchange(request, mode, outbound, NoResponse, hops))
    /\ UNCHANGED <<inbox, request, mode, outbound, upstreamResponse, response, hops>>

\* The client follows a redirect that points back at the Worker
ClientFollow ==
    /\ pc = "responded"
    /\ response.status \in RedirectStatuses
    /\ HasHeader(response.headers, "Location")
    /\ GetHeader(response.headers, "Location").url.host = request.url.host
    /\ hops < MaxHops
    /\ inbox' = <<Sent([request EXCEPT !.url = GetHeader(response.headers, "Location").url],
                        hops + 1)>> \o inbox
    /\ pc' = "idle"
    /\ UNCHANGED <<request, mode, outbound, upstreamResponse, response, served, hops>>

Next ==
    \/ FetchEvent
    \/ ChallengeFetched
    \/ ChallengeText
    \/ TokenFetched
    \/ DataFetched
    \/ FetchRejected
    \/ ClientFollow

Spec == Init /\ [][Next]_vars

-----------------------------------------------------------------------------
(* Properties                                                              *)

Slashes(p) == {i \in 1..Len(p) : p[i] = Slash}
Colons(s) == {i \in 1..Len(s) : s[i] = Colon}
Location(resp) == GetHeader(resp.headers, "Location").url
ScopeOf(url) == SearchParamsGet(url.search, "scope")

\* The handling mode the routing table gives a path: five elements are four "/"
ModeOfPath(p) ==
    IF p = RootPath THEN "landing"
    ELSE IF p = V2Path THEN "challenge"
    ELSE IF p = TokenPath THEN "token"
    ELSE IF Cardinality(Slashes(p)) = 4 THEN "namespace"
    ELSE "proxy"

\* p with "library/" written after its second "/"
WithLibrary(p) ==
    LET second == CHOOSE i \in Slashes(p) : Cardinality({j \in Slashes(p) : j < i}) = 1
    IN  SubSeq(p, 1, second) \o LibrarySlash \o SubSeq(p, second + 1, Len(p))

\* The scope the Scope Normalizer is specified to give
Normalized(s) ==
    IF Cardinality(Colons(s)) # 2 THEN s
    ELSE LET first == CHOOSE i \in Colons(s) : \A j \in Colons(s) : i <= j
             second == CHOOSE i \in Colons(s) : \A j \in Colons(s) : j <= i
         IN  IF \E k \in (first + 1)..(second - 1) : s[k] = Slash
             THEN s
             ELSE SubSeq(s, 1, first) \o LibrarySlash \o SubSeq(s, first + 1, Len(s))

\* C1: every request is handled in exactly one of the five modes, the one
\* its path alone selects ("/" redirect to www.docker.com, "/v2/" challenge,
\* "/auth/token" token, five elements namespace redirect, anything else
\* proxied to registry-1.docker.io), whatever its method, headers and query.
C1_ModeByPath ==
    /\ \A i \in 1..Len(served) : served[i].mode = ModeOfPath(served[i].request.url.pathname)
    /\ mode # "none" =>
        /\ mode = ModeOfPath(request.url.pathname)
        /\ mode = "landing" =>
              /\ response.status = 301
              /\ Location(response).host = "www.docker.com"
              /\ outbound = <<>>
        /\ mode = "challenge" => outbound[1].url.host = "registry-1.docker.io"
        /\ mode = "token" /\ outbound # <<>> => outbound[1].url.host = "auth.docker.io"
        /\ mode = "namespace" => response.status = 301 /\ outbound = <<>>
        /\ mode = "proxy" => outbound[1].url.host = "registry-1.docker.io"

C1_Witness ==
    /\ mode = "landing"
    /\ request.method = "HEAD"
    /\ request.url.search # <<>>
    /\ request.headers # {}
    /\ pc = "responded"

\* C2: a path of five elements is answered by a 301 to the same path with
\* "library" inserted as element 2, on the host of the request and not on
\* the upstream host, with no outbound call.
C2_NamespaceRedirect ==
    (mode # "none" /\ Cardinality(Slashes(request.url.pathname)) = 4) =>
        /\ response.status = 301
        /\ Location(response).scheme = "https"
        /\ Location(response).host = request.url.host
        /\ Location(response).host # DOCKER_REGISTRY.host
        /\ Location(response).pathname = WithLibrary(request.url.pathname)
        /\ request.url.pathname = V2Path \o Alpine \o ManifestsLatest =>
              Location(response).pathname = V2Path \o LibrarySlash \o Alpine \o ManifestsLatest
        /\ outbound = <<>>

C2_Witness ==
    /\ pc = "responded"
    /\ request.url.pathname = V2Path \o Alpine \o ManifestsLatest
    /\ Location(response).pathname = V2Path \o LibrarySlash \o Alpine \o ManifestsLatest

\* C3: processScope writes "library/" before the second part of a scope of
\* exactly three parts whose second part has no "/", and returns every
\* other scope unchanged.
C3_ScopeNormalized ==
    (mode = "token" /\ ScopeOf(request.url) # <<>>) =>
        LET s == ScopeOf(request.url)[1]
        IN  /\ processScope(request.url) = [threw |-> FALSE, value |-> Normalized(s)]
            /\ outbound # <<>>
            /\ ScopeOf(outbound[1].url) = <<Normalized(s)>>
            /\ s = Join(<<Repository, Ubuntu, Pull>>, Colon) =>
                  ScopeOf(outbound[1].url) = <<Join(<<Repository, LibrarySlash \o Ubuntu, Pull>>, Colon)>>
            /\ s \in {Join(<<Repository, LibrarySlash \o Ubuntu, Pull>>, Colon),
                      Join(<<Repository, <<"u", "/", "r">>, Push>>, Colon)} =>
                  ScopeOf(outbound[1].url) = <<s>>

C3_Witness ==
    /\ mode = "token"
    /\ ScopeOf(request.url) = <<Join(<<Repository, Ubuntu, Pull>>, Colon)>>
    /\ ScopeOf(outbound[1].url) = <<Join(<<Repository, LibrarySlash \o Ubuntu, Pull>>, Colon)>>

\* C4: a token request with a scope makes exactly one outbound call, to
\* https://auth.docker.io/token with exactly service=registry.docker.io and
\* scope=<normalized scope>, and the answer is returned unmodified.
C4_TokenProxy ==
    (mode = "token" /\ ScopeOf(request.url) # <<>>) =>
        /\ Len(outbound) = 1
        /\ outbound[1].url =
              [scheme |-> "https", host |-> "auth.docker.io",
               pathname |-> <<"/", "t", "o", "k", "e", "n">>,
               search |-> <<Param("service", RegistryService),
                            Param("scope", Normalized(ScopeOf(request.url)[1]))>>]
        /\ pc = "responded" => upstreamResponse \in Answers(outbound[1]) /\ response = upstreamResponse

C4_Witness ==
    /\ mode = "token"
    /\ pc = "responded"
    /\ Len(request.url.search) = 2
    /\ response.status = 200
    /\ response.body = "token"

\* C5: any other path is sent once to the registry, path only, with the
\* method and headers of the request and redirect manual; the answer, a 3xx
\* included, is returned unmodified and no second call is made.
C5_GenericProxy ==
    (mode = "proxy") =>
        /\ Len(outbound) = 1
        /\ outbound[1] =
              [url |-> [scheme |-> "https", host |-> "registry-1.docker.io",
                        pathname |-> request.url.pathname, search |-> <<>>],
               method |-> request.method, headers |-> request.headers,
               redirect |-> "manual"]
        /\ pc = "responded" => upstreamResponse \in Answers(outbound[1]) /\ response = upstreamResponse

C5_Witness ==
    /\ mode = "proxy"
    /\ pc = "responded"
    /\ request.url.search # <<>>
    /\ request.headers # {}
    /\ response.status = 307

ChallengeHeader(host) ==
    Header("WWW-Authenticate",
           [scheme |-> "Bearer",
            realm |-> [scheme |-> "https", host |-> host, pathname |-> TokenPath, search |-> <<>>],
            service |-> "docker-proxy-worker"])

\* C6 as stated: the challenge response has the status, status text and
\* body of the upstream /v2/ response and exactly one header, the
\* WWW-Authenticate challenge with the requesting host as realm host.
C6_OnlyChallengeHeader ==
    (mode = "challenge" /\ pc = "responded") =>
        /\ outbound[1].url = NewURL(DOCKER_REGISTRY, V2Path)
        /\ response.status = upstreamResponse.status
        /\ response.statusText = upstreamResponse.statusText
        /\ response.body = upstreamResponse.body
        /\ response.headers = {ChallengeHeader(request.url.host)}

\* C6 amended: the challenge response has the status, status text and body
\* of the upstream /v2/ response; its headers are the WWW-Authenticate
\* challenge with the requesting host as realm host and the Content-Type
\* text/plain;charset=UTF-8 of a string body; no upstream header is kept.
C6_ChallengeResponse ==
    (mode = "challenge" /\ pc = "responded") =>
        /\ outbound[1].url = NewURL(DOCKER_REGISTRY, V2Path)
        /\ response.status = upstreamResponse.status
        /\ response.statusText = upstreamResponse.statusText
        /\ response.body = upstreamResponse.body
        /\ response.headers =
              {ChallengeHeader(request.url.host),
               Header("Content-Type", [text |-> "text/plain;charset=UTF-8"])}
        /\ response.headers \cap upstreamResponse.headers = {}
        /\ GetHeader(response.headers, "WWW-Authenticate").realm.host # DOCKER_REGISTRY.host

C6_Witness ==
    /\ mode = "challenge"
    /\ pc = "responded"
    /\ response.status = 401
    /\ HasHeader(upstreamResponse.headers, "WWW-Authenticate")

\* C7: normalizing a normalized scope changes nothing.
C7_Idempotent ==
    (mode = "token" /\ outbound # <<>>) =>
        processScope(outbound[1].url) = [threw |-> FALSE, value |-> ScopeOf(outbound[1].url)[1]]

C7_Witness ==
    /\ mode = "token"
    /\ outbound # <<>>
    /\ ScopeOf(request.url) = <<<<"a", ":", "a", ":", "a">>>>
    /\ ScopeOf(outbound[1].url) # ScopeOf(request.url)

\* C8: for a repository name, the manifest path is redirected to the
\* library path exactly when the scope of that name is rewritten to the
\* library scope: both when the name has no "/", neither when it has one.
C8_PathAndScopeAgree ==
    \A n \in RepoNames, a \in {Pull, Push}, i \in 1..Len(served), j \in 1..Len(served) :
        (/\ served[i].request.url.pathname = RepoPath(n)
         /\ served[j].request.url.pathname = TokenPath
         /\ ScopeOf(served[j].request.url) = <<RepoScope(n, a)>>) =>
            LET redirected ==
                    /\ served[i].mode = "namespace"
                    /\ Location(served[i].response).pathname = RepoPath(LibrarySlash \o n)
                rewritten ==
                    ScopeOf(served[j].outbound[1].url) = <<RepoScope(LibrarySlash \o n, a)>>
            IN  /\ redirected <=> rewritten
                /\ redirected <=> ~Includes(n, Slash)
                /\ Includes(n, Slash) =>
                      /\ served[i].mode = "proxy"
                      /\ served[i].outbound[1].url.pathname = RepoPath(n)
                      /\ ScopeOf(served[j].outbound[1].url) = <<RepoScope(n, a)>>

C8_Witness ==
    /\ Len(served) = 2
    /\ served[1].mode = "namespace"
    /\ served[1].request.url.pathname = RepoPath(<<"a">>)
    /\ ScopeOf(served[2].request.url) = <<RepoScope(<<"a">>, Pull)>>
    /\ ScopeOf(served[2].outbound[1].url) = <<RepoScope(LibrarySlash \o <<"a">>, Pull)>>

\* C9: a token request without scope throws in processScope: no response
\* is produced and no outbound request is issued.
C9_MissingScope ==
    (mode = "token" /\ ScopeOf(request.url) = <<>>) =>
        /\ processScope(request.url).threw
        /\ pc = "threw"
        /\ response = NoResponse
        /\ outbound = <<>>

C9_Witness ==
    /\ mode = "token"
    /\ pc = "threw"
    /\ outbound = <<>>
    /\ request.url.search # <<>>

\* C10: the target of a namespace redirect has six elements, so the
\* followed request is proxied: no request is redirected twice.
C10_NoRedirectLoop ==
    /\ hops <= 1
    /\ \A i \in 1..Len(served) :
          /\ served[i].mode = "namespace" =>
                /\ Cardinality(Slashes(Location(served[i].response).pathname)) = 5
                /\ ModeOfPath(Location(served[i].response).pathname) = "proxy"
          /\ served[i].hop >= 1 => served[i].mode = "proxy"

C10_Witness ==
    /\ hops = 1
    /\ pc = "responded"
    /\ Len(served) = 2
    /\ served[1].mode = "namespace"
    /\ served[2].mode = "proxy"
    /\ served[2].hop = 1
    /\ served[2].response.status = 200

====
